---- MODULE Spec2Model ----
(***************************************************************************)
(* Model of the post/topic endpoints of app/post/routers/posts.py.         *)
(*                                                                         *)
(* The document store holds two collections, topics and posts.  Each HTTP  *)
(* request is run by a worker; every store operation of a handler is one   *)
(* atomic step, and workers interleave between store operations.           *)
(*                                                                         *)
(* Encoding of values                                                      *)
(*   text      a sequence of tokens.  A token is a run of alphanumeric     *)
(*             characters (a positive number 10*length + index, plus 100   *)
(*             when the run holds upper-case letters), a run of            *)
(*             punctuation (0), or the hyphen (Hyphen).  Tokens of a       *)
(*             title or name are separated by blanks.                      *)
(*   Optional  <<>> is None, <<v>> is the value v.                         *)
(*   body text [len |-> n, ch |-> c] is the character c repeated n times.  *)
(***************************************************************************)
EXTENDS Integers, Sequences, FiniteSets

\* ---------------------------------------------------------------- bounds
NumWorkers == 2
MaxReqs == 3
MaxTime == 1
NumRand == 1

\* ------------------------------------------------------ program constants
MaxAttempts == 9
ShortLen == 200

Workers == 1..NumWorkers
Users == {1, 2}
None == <<>>
Some(v) == <<v>>

VARIABLES topics, posts, nextId, now, nreq, pc, req, loc, i, out

vars == <<topics, posts, nextId, now, nreq, pc, req, loc, i, out>>

\* ------------------------------------------------------------ pure helpers
Hyphen == 0 - 1

Min(a, b) == IF a < b THEN a ELSE b

\* str.lower()
Lower(s) == [k \in DOMAIN s |-> IF s[k] >= 100 THEN s[k] - 100 ELSE s[k]]

RECURSIVE Join(_)
Join(ws) == IF Len(ws) <= 1 THEN ws ELSE <<ws[1], Hyphen>> \o Join(Tail(ws))

\* slugify(text): lower-case, drop what is not alphanumeric, join the words
\* with single hyphens (none leading or trailing).
slugify(s) == Join(SelectSeq(Lower(s), LAMBDA t : t > 0))

\* rand_slug_str(n): the random alphanumeric strings of length n
rand_slug_str(n) == {10 * n + k : k \in 1..NumRand}

\* Variant of NewSlugs: the suffix is added on the first attempt too.
NewSlugs_AlwaysSuffixed(slug, n) ==
    {slug \o <<Hyphen, r>> : r \in rand_slug_str(n)}

\* f"{slug}-{rand_slug_str(i)}" if i > 1 else slug
NewSlugs(slug, n) ==
    IF n > 1 THEN {slug \o <<Hyphen, r>> : r \in rand_slug_str(n)} ELSE {slug}

\* str(ObjectId()): a fresh 24-digit hexadecimal string
ObjectIdStr(id) == <<1000 + id>>

\* The empty string
Empty == [len |-> 0, ch |-> ""]

\* `if value:` of an Optional[str]
Truthy(opt) == opt # None /\ opt[1].len > 0

\* description[:200], or "" when there is no description
get_short_description(description) ==
    IF Truthy(description)
    THEN Some([description[1] EXCEPT !.len = Min(@, ShortLen)])
    ELSE Some(Empty)

\* ------------------------------------------------------------------ store
\* The store's uniqueness constraint on the slug field of a collection.
TopicSlugFree(id, slug) == \A t \in topics : t.id # id => t.slug # Some(slug)
PostSlugFree(id, slug) == \A d \in posts : d.id # id => d.slug # slug

\* Documents in natural (insertion) order.
RECURSIVE InOrder(_)
InOrder(S) ==
    IF S = {} THEN <<>>
    ELSE LET m == CHOOSE d \in S : \A e \in S : d.id <= e.id
         IN <<m>> \o InOrder(S \ {m})

\* The store fails the first req[p].faults updates of the request for a
\* reason other than uniqueness (it cannot be reached, say).
StoreFails(p) == i[p] <= req[p].faults

InFlight(p) == pc[p] # "idle"

\* A request starts on a free worker while the request budget lasts.  The
\* workers are interchangeable: the request goes to the first free one.
Begin(p) ==
    /\ ~InFlight(p)
    /\ \A q \in Workers : q < p => InFlight(q)
    /\ nreq < MaxReqs
    /\ nreq' = nreq + 1

Idle == [op |-> "none"]

\* The handler returns (or raises) r: the worker is free again, and out is
\* the response sent last.
Return(p, r) ==
    /\ pc' = [pc EXCEPT ![p] = "idle"]
    /\ req' = [req EXCEPT ![p] = Idle]
    /\ loc' = [loc EXCEPT ![p] = Idle]
    /\ i' = [i EXCEPT ![p] = 0]
    /\ out' = r

\* The handler goes on to the step at label l with request r, locals o and
\* loop index n.
Goto(p, l, r, o, n) ==
    /\ pc' = [pc EXCEPT ![p] = l]
    /\ req' = [req EXCEPT ![p] = r]
    /\ loc' = [loc EXCEPT ![p] = o]
    /\ i' = [i EXCEPT ![p] = n]
    /\ out' = out

Init ==
    /\ topics = {}
    /\ posts = {}
    /\ nextId = 1
    /\ now = 0
    /\ nreq = 0
    /\ pc = [p \in Workers |-> "idle"]
    /\ req = [p \in Workers |-> Idle]
    /\ loc = [p \in Workers |-> Idle]
    /\ i = [p \in Workers |-> 0]
    /\ out = Idle

\* ------------------------------------------------------------ create_topics
TopicNames == {<<131>>, <<31>>}

ValidationError(op, field) == [op |-> op, code |-> "VALIDATION_ERROR", field |-> field]
Ok(op, obj) == [op |-> op, code |-> "OK", obj |-> obj]

\* Topic.get_or_create, the lookup: name = topic_data.name.lower()
CT_Find(p, name, user, faults) ==
    /\ Begin(p)
    /\ LET n == Lower(name)
           found == {t \in topics : t.name = n}
       IN IF found # {}
          THEN Return(p, Ok("create_topics", [topic |-> InOrder(found)[1], created |-> FALSE]))
          ELSE Goto(p, "ct_create", [op |-> "create_topics", name |-> n, user |-> user, faults |-> faults], Idle, 0)
    /\ UNCHANGED <<topics, posts, nextId, now>>

\* Topic.get_or_create, the insert of a Topic that has a name and nothing else
CT_Create(p) ==
    /\ pc[p] = "ct_create"
    /\ LET t == [id |-> nextId, name |-> req[p].name, slug |-> None, user_id |-> None]
       IN /\ topics' = topics \cup {t}
          /\ Goto(p, "ct_loop", req[p], t, 1)
    /\ nextId' = nextId + 1
    /\ UNCHANGED <<posts, now, nreq>>

\* One pass of `for i in range(1, 10)`: the update raises (a uniqueness
\* conflict, or a failure of the store) or stores the slug.
CT_Attempt(p) ==
    /\ pc[p] = "ct_loop"
    /\ \E new_slug \in NewSlugs(slugify(loc[p].name), i[p]) :
         IF StoreFails(p) \/ ~TopicSlugFree(loc[p].id, new_slug)
         THEN /\ IF i[p] < MaxAttempts
                 THEN Goto(p, "ct_loop", req[p], loc[p], i[p] + 1)
                 ELSE Goto(p, "ct_rollback", req[p], loc[p], 0)
              /\ UNCHANGED topics
         ELSE /\ topics' = {IF t.id = loc[p].id
                            THEN [t EXCEPT !.user_id = Some(req[p].user), !.slug = Some(new_slug)]
                            ELSE t : t \in topics}
              /\ Return(p, Ok("create_topics",
                              [topic |-> [loc[p] EXCEPT !.slug = Some(new_slug)], created |-> TRUE]))
    /\ UNCHANGED <<posts, nextId, now, nreq>>

\* `if updated is False`: topic.delete() and the validation error
CT_Rollback(p) ==
    /\ pc[p] = "ct_rollback"
    /\ topics' = {t \in topics : t.id # loc[p].id}
    /\ Return(p, ValidationError("create_topics", "name"))
    /\ UNCHANGED <<posts, nextId, now, nreq>>

\* ------------------------------------------------------------- create_posts
A500 == [len |-> 500, ch |-> "A"]
B3 == [len |-> 3, ch |-> "B"]
C300 == [len |-> 300, ch |-> "C"]

PostInputs ==
    {[title |-> <<131>>, short_description |-> None, description |-> Some(A500),
      cover_image |-> None, publish_at |-> Some(0), topics |-> {<<31>>}],
     [title |-> <<131>>, short_description |-> None, description |-> None,
      cover_image |-> None, publish_at |-> None, topics |-> {}],
     [title |-> <<0>>, short_description |-> Some(B3), description |-> Some(A500),
      cover_image |-> None, publish_at |-> Some(0), topics |-> {}]}

\* The short description and Topic.find_raw({"slug": {"$in": post_data.topics}})
CP_FindTopics(p, post_data, user, faults) ==
    /\ Begin(p)
    /\ LET short_description ==
               IF ~Truthy(post_data.short_description)
               THEN get_short_description(post_data.description)
               ELSE post_data.short_description
           topic_ids == {t.id : t \in {u \in topics : \E s \in post_data.topics : u.slug = Some(s)}}
       IN Goto(p, "cp_create", [op |-> "create_posts", faults |-> faults],
               [author_id |-> user, title |-> post_data.title,
                short_description |-> short_description,
                description |-> post_data.description,
                cover_image |-> post_data.cover_image,
                publish_at |-> post_data.publish_at, topic_ids |-> topic_ids], 0)
    /\ UNCHANGED <<topics, posts, nextId, now>>

NewPost(id, fields) ==
    [id |-> id, slug |-> ObjectIdStr(id), author_id |-> fields.author_id,
     title |-> fields.title, short_description |-> fields.short_description,
     description |-> fields.description, cover_image |-> fields.cover_image,
     publish_at |-> fields.publish_at, topic_ids |-> fields.topic_ids]

\* Post(..., slug=str(ObjectId()), ...).create()
CP_Create(p) ==
    /\ pc[p] = "cp_create"
    /\ LET post == NewPost(nextId, loc[p])
       IN /\ posts' = posts \cup {post}
          /\ Goto(p, "cp_loop", req[p], post, 1)
    /\ nextId' = nextId + 1
    /\ UNCHANGED <<topics, now, nreq>>

\* Variant of CP_Attempt: a uniqueness conflict is taken for a saved slug.
CP_Attempt_IgnoresConflict(p) ==
    /\ pc[p] = "cp_loop"
    /\ \E new_slug \in NewSlugs(slugify(loc[p].title), i[p]) :
         IF StoreFails(p)
         THEN /\ IF i[p] < MaxAttempts
                 THEN Goto(p, "cp_loop", req[p], loc[p], i[p] + 1)
                 ELSE Goto(p, "cp_rollback", req[p], loc[p], 0)
              /\ UNCHANGED posts
         ELSE /\ posts' = IF PostSlugFree(loc[p].id, new_slug)
                          THEN {IF d.id = loc[p].id THEN [d EXCEPT !.slug = new_slug] ELSE d : d \in posts}
                          ELSE posts
              /\ Return(p, Ok("create_posts", [loc[p] EXCEPT !.slug = new_slug]))
    /\ UNCHANGED <<topics, nextId, now, nreq>>

\* One pass of `for i in range(1, 10)` of create_posts
CP_Attempt(p) ==
    /\ pc[p] = "cp_loop"
    /\ \E new_slug \in NewSlugs(slugify(loc[p].title), i[p]) :
         IF StoreFails(p) \/ ~PostSlugFree(loc[p].id, new_slug)
         THEN /\ IF i[p] < MaxAttempts
                 THEN Goto(p, "cp_loop", req[p], loc[p], i[p] + 1)
                 ELSE Goto(p, "cp_rollback", req[p], loc[p], 0)
              /\ UNCHANGED posts
         ELSE /\ posts' = {IF d.id = loc[p].id THEN [d EXCEPT !.slug = new_slug] ELSE d : d \in posts}
              /\ Return(p, Ok("create_posts", [loc[p] EXCEPT !.slug = new_slug]))
    /\ UNCHANGED <<topics, nextId, now, nreq>>

\* Variant of CP_Rollback: the Post is not deleted.
CP_Rollback_NoDelete(p) ==
    /\ pc[p] = "cp_rollback"
    /\ Return(p, ValidationError("create_posts", "title"))
    /\ UNCHANGED <<topics, posts, nextId, now, nreq>>

\* `if is_slug_saved is False`: post.delete() and the validation error
CP_Rollback(p) ==
    /\ pc[p] = "cp_rollback"
    /\ posts' = {d \in posts : d.id # loc[p].id}
    /\ Return(p, ValidationError("create_posts", "title"))
    /\ UNCHANGED <<topics, nextId, now, nreq>>

\* ---------------------------------------------------------------- get_posts
ListInputs ==
    {[page |-> 1, limit |-> 20, q |-> None, topics |-> {}, author_id |-> None],
     [page |-> 2, limit |-> 1, q |-> None, topics |-> {}, author_id |-> None],
     [page |-> 1, limit |-> 20, q |-> Some(<<131>>), topics |-> {1}, author_id |-> Some(1)]}

get_offset(page, limit) == (page - 1) * limit

\* Variant of Published: "$lte" in place of "$lt".
Published_Lte(d, t) == d.publish_at # None /\ d.publish_at[1] <= t

\* {"publish_at": {"$ne": None, "$lt": t}}
Published(d, t) == d.publish_at # None /\ d.publish_at[1] < t

Matches(d, f) ==
    /\ Published(d, f.t)
    /\ f.author_id # None => d.author_id = f.author_id[1]
    /\ f.topics # {} => d.topic_ids \cap f.topics # {}
    /\ f.q # None => d.title = f.q[1]

\* find(filter, limit, skip): the page of the matching documents
Page(S, skip, limit) ==
    LET all == InOrder(S)
    IN SubSeq(all, skip + 1, Min(Len(all), skip + limit))

PostListOut(d) ==
    [id |-> d.id, author |-> d.author_id, title |-> d.title,
     short_description |-> d.short_description, cover_image |-> d.cover_image,
     publish_at |-> d.publish_at]

\* The filter is built with datetime.utcnow(); Post.find and load_related
GP_Find(p, params) ==
    /\ Begin(p)
    /\ LET f == [t |-> now, author_id |-> params.author_id, topics |-> params.topics, q |-> params.q]
           page == Page({d \in posts : Matches(d, f)}, get_offset(params.page, params.limit), params.limit)
       IN Goto(p, "gp_count", [op |-> "get_posts", filter |-> f],
               [results |-> [k \in DOMAIN page |-> PostListOut(page[k])]], 0)
    /\ UNCHANGED <<topics, posts, nextId, now>>

\* Post.count_documents(filter=filter)
GP_Count(p) ==
    /\ pc[p] = "gp_count"
    /\ Return(p, Ok("get_posts",
                    [count |-> Cardinality({d \in posts : Matches(d, req[p].filter)}),
                     results |-> loc[p].results]))
    /\ UNCHANGED <<topics, posts, nextId, now, nreq>>

\* --------------------------------------------------------- get_post_details
NotFound(op) == [op |-> op, code |-> "OBJECT_NOT_FOUND"]
PermissionError(op) == [op |-> op, code |-> "PERMISSION_ERROR"]

\* The slugs a client sends: those of titles, and those it has been given.
RequestSlugs ==
    {slugify(<<131>>)} \cup {d.slug : d \in {e \in posts : e.slug # ObjectIdStr(e.id)}}

\* Post.get(filter) and User.get({"_id": post.author_id})
GD_Get(p, slug) ==
    /\ Begin(p)
    /\ LET found == {d \in posts : d.slug = slug /\ Published(d, now)}
       IN IF found = {} \/ InOrder(found)[1].author_id \notin Users
          THEN Return(p, NotFound("get_post_details"))
          ELSE Goto(p, "gd_topics", [op |-> "get_post_details"], InOrder(found)[1], 0)
    /\ UNCHANGED <<topics, posts, nextId, now>>

\* Topic.find({"_id": {"$in": post.topic_ids}})
GD_Topics(p) ==
    /\ pc[p] = "gd_topics"
    /\ Return(p, Ok("get_post_details",
                    [post |-> loc[p], topics |-> {t \in topics : t.id \in loc[p].topic_ids}]))
    /\ UNCHANGED <<topics, posts, nextId, now, nreq>>

\* ------------------------------------------------------------- update_posts
Unset == <<>>
Set(v) == <<v>>

UpdateInputs ==
    {[title |-> Set(<<31, 0>>), short_description |-> Unset, description |-> Unset,
      cover_image |-> Unset, publish_at |-> Unset],
     [title |-> Unset, short_description |-> Unset, description |-> Set(Some(C300)),
      cover_image |-> Unset, publish_at |-> Unset]}

\* update_partially(post, post_data): the fields the request sets
Merge(old, new) == IF new = Unset THEN old ELSE new[1]

update_partially(post, post_data) ==
    [post EXCEPT !.title = Merge(@, post_data.title),
                 !.short_description = Merge(@, post_data.short_description),
                 !.description = Merge(@, post_data.description),
                 !.cover_image = Merge(@, post_data.cover_image),
                 !.publish_at = Merge(@, post_data.publish_at)]

\* post_data.<field>: the value set, or the field's default None
Field(v) == IF v = Unset THEN None ELSE v[1]

\* Variant of UP_Get: the author is not checked.
UP_Get_NoAuthorCheck(p, slug, post_data, user) ==
    /\ Begin(p)
    /\ LET found == {d \in posts : d.slug = slug}
       IN IF found = {}
          THEN Return(p, NotFound("update_posts"))
          ELSE Goto(p, "up_write", [op |-> "update_posts", post_data |-> post_data],
                    InOrder(found)[1], 0)
    /\ UNCHANGED <<topics, posts, nextId, now>>

\* get_object_or_404(Post, {"slug": slug}) and the check of the author
UP_Get(p, slug, post_data, user) ==
    /\ Begin(p)
    /\ LET found == {d \in posts : d.slug = slug}
       IN IF found = {}
          THEN Return(p, NotFound("update_posts"))
          ELSE IF InOrder(found)[1].author_id # user
          THEN Return(p, PermissionError("update_posts"))
          ELSE Goto(p, "up_write", [op |-> "update_posts", post_data |-> post_data],
                    InOrder(found)[1], 0)
    /\ UNCHANGED <<topics, posts, nextId, now>>

\* Lines 212-216: the post as update_posts writes it
Updated(post, post_data) ==
    LET merged == update_partially(post, post_data)
        short == Field(post_data.short_description)
    IN [merged EXCEPT !.short_description =
            IF ~Truthy(short) /\ Truthy(Field(post_data.description))
            THEN get_short_description(Field(post_data.description))
            ELSE short]

\* post.update(): every field of the local post is written to its document
UP_Write(p) ==
    /\ pc[p] = "up_write"
    /\ LET post == Updated(loc[p], req[p].post_data)
       IN posts' = {IF d.id = post.id THEN post ELSE d : d \in posts}
    /\ Return(p, [op |-> "update_posts", code |-> "OK"])
    /\ UNCHANGED <<topics, nextId, now, nreq>>

\* --------------------------------------------------------------------- time
Tick ==
    /\ now < MaxTime
    /\ now' = now + 1
    /\ UNCHANGED <<topics, posts, nextId, nreq, pc, req, loc, i, out>>

\* The store fails none of a request's slug writes, or all of them.
LeadingFaults == {0, MaxAttempts}

Next ==
    \/ \E p \in Workers, name \in TopicNames, user \in Users, faults \in LeadingFaults :
         CT_Find(p, name, user, faults)
    \/ \E p \in Workers : CT_Create(p)
    \/ \E p \in Workers : CT_Attempt(p)
    \/ \E p \in Workers : CT_Rollback(p)
    \/ \E p \in Workers, post_data \in PostInputs, user \in Users, faults \in LeadingFaults :
         CP_FindTopics(p, post_data, user, faults)
    \/ \E p \in Workers : CP_Create(p)
    \/ \E p \in Workers : CP_Attempt(p)
    \/ \E p \in Workers : CP_Rollback(p)
    \/ \E p \in Workers, params \in ListInputs : GP_Find(p, params)
    \/ \E p \in Workers : GP_Count(p)
    \/ \E p \in Workers, slug \in RequestSlugs : GD_Get(p, slug)
    \/ \E p \in Workers : GD_Topics(p)
    \/ \E p \in Workers, slug \in RequestSlugs, post_data \in UpdateInputs, user \in Users :
         UP_Get(p, slug, post_data, user)
    \/ \E p \in Workers : UP_Write(p)
    \/ Tick

Spec == Init /\ [][Next]_vars

\* ================================================================== claims
Ids(S) == {d.id : d \in S}
Visible(d) == d.publish_at # None /\ d.publish_at[1] < now
Moved(p) == pc'[p] # pc[p] \/ i'[p] # i[p]

\* base followed by "-" and one random alphanumeric string
IsSuffixed(s, base) ==
    /\ Len(s) = Len(base) + 2
    /\ SubSeq(s, 1, Len(base)) = base
    /\ s[Len(base) + 1] = Hyphen
    /\ \E n \in 2..MaxAttempts : s[Len(s)] \in rand_slug_str(n)

\* C1: every persisted Post and Topic has a non-empty slug, and no two Posts
\* and no two Topics share a slug, in every reachable state.
C1_SlugsNonEmptyUnique ==
    /\ \A d \in posts : d.slug # <<>>
    /\ \A t \in topics : t.slug # None /\ t.slug # Some(<<>>)
    /\ \A d, e \in posts : d.id # e.id => d.slug # e.slug
    /\ \A t, u \in topics : t.id # u.id => t.slug # u.slug

\* The step in which worker q ends a create_posts request with success while
\* the response sent last is that of a create_posts request of the same title
\* whose Post was inserted after q's: the two requests ran concurrently.
RaceEnds(q) ==
    /\ pc[q] = "cp_loop" /\ pc'[q] = "idle"
    /\ req[q].faults = 0
    /\ out.op = "create_posts" /\ out.code = "OK"
    /\ out.obj.title = loc[q].title
    /\ out.obj.id > loc[q].id

OneBaseOneSuffixed(a, b, base) ==
    \/ a = base /\ IsSuffixed(b, base)
    \/ b = base /\ IsSuffixed(a, base)

\* C2 as stated: two concurrent create_posts requests with identical titles
\* both succeed with distinct slugs, one the base slug and the other the base
\* slug with a random suffix.
C2_Original ==
    [][\A q \in Workers :
         RaceEnds(q) =>
           /\ out.obj.slug # out'.obj.slug
           /\ OneBaseOneSuffixed(out.obj.slug, out'.obj.slug, slugify(loc[q].title))]_vars

\* C2 as amended: two concurrent create_posts requests with identical titles,
\* the store failing no write but for uniqueness, both succeed with distinct
\* slugs, each the base slug or the base slug with a random suffix; one is the
\* base slug and the other is suffixed when no other Post holds the base slug;
\* a request whose candidate is taken tries the next one.
C2_Amended ==
    /\ [][\A q \in Workers :
            RaceEnds(q) =>
              LET base == slugify(loc[q].title)
                  a == out.obj.slug
                  b == out'.obj.slug
              IN /\ a # b
                 /\ a = base \/ IsSuffixed(a, base)
                 /\ b = base \/ IsSuffixed(b, base)
                 /\ (\A d \in posts : d.id \notin {out.obj.id, loc[q].id} => d.slug # base)
                      => OneBaseOneSuffixed(a, b, base)]_vars
    /\ [][\A q \in Workers :
            (pc[q] = "cp_loop" /\ req[q].faults = 0 /\ Moved(q) /\ pc'[q] # "idle") =>
              /\ \E s \in NewSlugs(slugify(loc[q].title), i[q]) : ~PostSlugFree(loc[q].id, s)
              /\ i[q] < MaxAttempts => pc'[q] = "cp_loop" /\ i'[q] = i[q] + 1]_vars

\* The loser of a race has ended: its Post carries a suffix, and the Post of
\* the same title inserted after it holds the base slug.
C2_Witness ==
    /\ out.op = "create_posts" /\ out.code = "OK"
    /\ IsSuffixed(out.obj.slug, slugify(out.obj.title))
    /\ \E d \in posts :
         /\ d.id > out.obj.id
         /\ d.title = out.obj.title
         /\ d.slug = slugify(d.title)

\* C3: when all 9 slug writes of a creation request fail, the entity it
\* created is absent from the store once the request has ended, and the
\* request fails with VALIDATION_ERROR naming "title" (create_posts) or "name"
\* (create_topics).
C3_Rollback ==
    /\ [](/\ \A d \in posts :
               d.slug = ObjectIdStr(d.id) =>
                 \E p \in Workers : pc[p] \in {"cp_loop", "cp_rollback"} /\ loc[p].id = d.id
          /\ \A t \in topics :
               t.slug = None =>
                 \E p \in Workers : pc[p] \in {"ct_loop", "ct_rollback"} /\ loc[p].id = t.id)
    /\ [][\A p \in Workers :
            /\ (pc[p] = "cp_loop" /\ i[p] = MaxAttempts /\ Moved(p) /\ pc'[p] # "idle")
                 => pc'[p] = "cp_rollback"
            /\ (pc[p] = "ct_loop" /\ i[p] = MaxAttempts /\ Moved(p) /\ pc'[p] # "idle")
                 => pc'[p] = "ct_rollback"
            /\ (pc[p] = "cp_rollback" /\ Moved(p)) =>
                 /\ pc'[p] = "idle"
                 /\ loc[p].id \notin Ids(posts')
                 /\ out' = [op |-> "create_posts", code |-> "VALIDATION_ERROR", field |-> "title"]
            /\ (pc[p] = "ct_rollback" /\ Moved(p)) =>
                 /\ pc'[p] = "idle"
                 /\ loc[p].id \notin Ids(topics')
                 /\ out' = [op |-> "create_topics", code |-> "VALIDATION_ERROR", field |-> "name"]]_vars

\* A create_posts request has failed with the validation error, and the one
\* Post ever inserted is gone.
C3_Witness ==
    /\ out = [op |-> "create_posts", code |-> "VALIDATION_ERROR", field |-> "title"]
    /\ nextId = 2
    /\ posts = {}
    /\ topics = {}

\* C4: update_posts by a user who is not the Post's author returns
\* PERMISSION_ERROR and leaves the Post and the rest of the store unchanged.
C4_NonAuthorUpdate ==
    [][\A p \in Workers, slug \in RequestSlugs, post_data \in UpdateInputs, user \in Users :
         (UP_Get(p, slug, post_data, user)
            /\ \E d \in posts : d.slug = slug /\ d.author_id # user) =>
           /\ out' = [op |-> "update_posts", code |-> "PERMISSION_ERROR"]
           /\ pc'[p] = "idle"
           /\ posts' = posts
           /\ topics' = topics]_vars

\* A non-author has been refused.
C4_Witness ==
    /\ out = [op |-> "update_posts", code |-> "PERMISSION_ERROR"]
    /\ posts # {}

\* C5: update_posts by the author changes only the fields the request sets;
\* short_description is recomputed when a description is given without a
\* short_description, and is otherwise left alone when not set.
C5_PartialUpdate ==
    [][\A p \in Workers :
         (pc[p] = "up_write" /\ Moved(p)) =>
           \A d \in posts : d.id = loc[p].id =>
             \E e \in posts' :
               LET post_data == req[p].post_data
               IN /\ e.id = d.id
                  /\ e.slug = d.slug /\ e.author_id = d.author_id /\ e.topic_ids = d.topic_ids
                  /\ post_data.title = Unset => e.title = d.title
                  /\ post_data.description = Unset => e.description = d.description
                  /\ post_data.cover_image = Unset => e.cover_image = d.cover_image
                  /\ post_data.publish_at = Unset => e.publish_at = d.publish_at
                  /\ (post_data.short_description = Unset /\ post_data.description = Unset)
                       => e.short_description = d.short_description]_vars

\* C6: a Post whose publish_at is unset or not strictly before the current
\* time is in no result and no count of get_posts, and get_post_details of its
\* slug is not-found; a Post whose publish_at is before the current time is
\* returned by both reads.
AllPosts == [page |-> 1, limit |-> 20, q |-> None, topics |-> {}, author_id |-> None]

C6_Visibility ==
    [][/\ \A p \in Workers, params \in ListInputs :
            GP_Find(p, params) =>
              /\ \A k \in DOMAIN loc'[p].results :
                   \E d \in posts : d.id = loc'[p].results[k].id /\ Visible(d)
              /\ params = AllPosts =>
                   \A d \in posts : Visible(d) =>
                     \E k \in DOMAIN loc'[p].results : loc'[p].results[k].id = d.id
       /\ \A p \in Workers :
            (pc[p] = "gp_count" /\ Moved(p)) =>
              /\ out'.obj.count <= Cardinality({d \in posts : Visible(d)})
              /\ (req[p].filter = [t |-> now, author_id |-> None, topics |-> {}, q |-> None])
                   => out'.obj.count = Cardinality({d \in posts : Visible(d)})
       /\ \A p \in Workers, slug \in RequestSlugs :
            GD_Get(p, slug) =>
              /\ (\A d \in posts : d.slug = slug => ~Visible(d))
                   => out' = [op |-> "get_post_details", code |-> "OBJECT_NOT_FOUND"]
              /\ \A d \in posts : (d.slug = slug /\ Visible(d))
                   => pc'[p] = "gd_topics" /\ loc'[p] = d]_vars

\* get_posts has returned the one published Post and left out an older Post
\* that has no publish_at.
C6_Witness ==
    /\ out.op = "get_posts"
    /\ out.obj.count = 1
    /\ Len(out.obj.results) = 1
    /\ out.obj.results[1].publish_at = Some(0)
    /\ now = 1
    /\ \E e \in posts : e.publish_at = None /\ e.id < out.obj.results[1].id

\* C7: after a create_topics request has succeeded, a later create_topics
\* request with a name of the same lower-case form returns that same Topic
\* with created=false, creates no Topic and leaves the Topic unchanged.
C7_GetOrCreateIdempotent ==
    [][\A p \in Workers, name \in TopicNames, user \in Users, faults \in LeadingFaults :
         (CT_Find(p, name, user, faults)
            /\ out.op = "create_topics" /\ out.code = "OK"
            /\ out.obj.topic.name = Lower(name)) =>
           /\ pc'[p] = "idle"
           /\ out'.obj.created = FALSE
           /\ out'.obj.topic.id = out.obj.topic.id
           /\ out'.obj.topic \in topics
           /\ topics' = topics]_vars

\* C8: a creation request makes at most 9 slug writes; write 1 uses the base
\* slug and writes 2..9 the base slug with a random suffix; the first write
\* that succeeds ends the loop and its candidate stays the entity's slug; the
\* request ends with success or with the validation error.
SlugOfAttempt(s, base, n) == IF n = 1 THEN s = base ELSE IsSuffixed(s, base)

C8_BoundedAttempts ==
    /\ [](\A p \in Workers :
            /\ pc[p] \in {"cp_loop", "ct_loop"} => i[p] \in 1..MaxAttempts
            /\ pc[p] = "cp_loop" => ENABLED CP_Attempt(p)
            /\ pc[p] = "ct_loop" => ENABLED CT_Attempt(p)
            /\ pc[p] = "cp_rollback" => ENABLED CP_Rollback(p)
            /\ pc[p] = "ct_rollback" => ENABLED CT_Rollback(p))
    /\ [][\A p \in Workers :
            /\ (pc[p] = "cp_loop" /\ Moved(p)) =>
                 \/ /\ pc'[p] = "idle"
                    /\ out'.op = "create_posts" /\ out'.code = "OK"
                    /\ SlugOfAttempt(out'.obj.slug, slugify(loc[p].title), i[p])
                    /\ \E d \in posts' : d.id = loc[p].id /\ d.slug = out'.obj.slug
                 \/ /\ posts' = posts
                    /\ \/ i[p] < MaxAttempts /\ pc'[p] = "cp_loop" /\ i'[p] = i[p] + 1
                       \/ i[p] = MaxAttempts /\ pc'[p] = "cp_rollback"
            /\ (pc[p] = "ct_loop" /\ Moved(p)) =>
                 \/ /\ pc'[p] = "idle"
                    /\ out'.op = "create_topics" /\ out'.code = "OK"
                    /\ out'.obj.topic.slug # None
                    /\ SlugOfAttempt(out'.obj.topic.slug[1], slugify(loc[p].name), i[p])
                    /\ \E t \in topics' : t.id = loc[p].id /\ t.slug = out'.obj.topic.slug
                 \/ /\ topics' = topics
                    /\ \/ i[p] < MaxAttempts /\ pc'[p] = "ct_loop" /\ i'[p] = i[p] + 1
                       \/ i[p] = MaxAttempts /\ pc'[p] = "ct_rollback"
            /\ (pc[p] \in {"cp_rollback", "ct_rollback"} /\ Moved(p)) =>
                 pc'[p] = "idle" /\ out'.code = "VALIDATION_ERROR"]_vars
    /\ [][/\ \A d \in posts : d.slug # ObjectIdStr(d.id) =>
              \A e \in posts' : e.id = d.id => e.slug = d.slug
          /\ \A t \in topics : t.slug # None =>
              \A u \in topics' : u.id = t.id => u.slug = t.slug]_vars

\* A create_posts request has succeeded at a retry, with a suffixed slug.
C8_Witness ==
    /\ out.op = "create_posts" /\ out.code = "OK"
    /\ IsSuffixed(out.obj.slug, slugify(out.obj.title))
    /\ \E d \in posts : d.id = out.obj.id /\ d.slug = out.obj.slug

\* C9: the store never holds two Topics of the same lower-cased name; a Topic
\* returned by create_topics has a non-empty slug when it is returned, and is
\* in the store once no request is in flight.
C9_TopicsByName ==
    /\ \A t, u \in topics : t.id # u.id => t.name # u.name
    /\ (out.op = "create_topics" /\ out.code = "OK") =>
         /\ out.obj.topic.slug # None
         /\ out.obj.topic.slug # Some(<<>>)
         /\ (\A p \in Workers : ~InFlight(p)) =>
              \E t \in topics : t.id = out.obj.topic.id

\* C10: no read returns a Post whose creation has not finished its slug
\* allocation, so no Post a read has returned is removed by the rollback of
\* its creation.
C10_NoHalfCreatedRead ==
    /\ [](\A p, q \in Workers :
            /\ (pc[p] = "gp_count" /\ pc[q] \in {"cp_loop", "cp_rollback"}) =>
                 \A k \in DOMAIN loc[p].results : loc[p].results[k].id # loc[q].id
            /\ (pc[p] = "gd_topics" /\ pc[q] \in {"cp_loop", "cp_rollback"}) =>
                 loc[p].id # loc[q].id)
    /\ [][\A q \in Workers :
            (pc[q] = "cp_rollback" /\ Moved(q) /\ out.op = "get_posts") =>
              \A k \in DOMAIN out.obj.results : out.obj.results[k].id # loc[q].id]_vars
====
